---- MODULE Spec2Model ----
(***************************************************************************)
(* A model of src/game.rs of sokoban-rs: Game::new with load_map, and the  *)
(* three EventHandler callbacks update, draw and key_down_event.           *)
(*                                                                         *)
(* A map text is a sequence of one-character strings.  The world is the    *)
(* sequence of entities in creation order; an entity's identity is its     *)
(* index in that sequence.  The modules components, entities, resources    *)
(* and systems are not among the sources; what the model needs of them is  *)
(* taken from the specification and marked so where it is defined.         *)
(***************************************************************************)
EXTENDS Integers, Sequences, FiniteSets, TLC

VARIABLES
    map_str,     \* the map_str argument of Game::new
    missing,     \* the asset the image store cannot load ("none": all load)
    pc,          \* where Game::new stands: new, load, running, panicked, failed
    rows,        \* load_map's local rows
    cols,        \* load_map's local cols of the row being read
    y,           \* index of the outer loop of load_map (a usize)
    x,           \* index of the inner loop of load_map (a usize)
    world,       \* legion::World: the entities in creation order
    resources,   \* legion::Resources: resource name -> value
    continuing,  \* the engine's run flag in ggez::Context, cleared by event::quit
    screen,      \* <<>> before any frame; <<frame>> once a frame was presented
    ran,         \* the systems the last update executed, in execution order
    pressed      \* history: the keys pressed since the last update

vars == <<map_str, missing, pc, rows, cols, y, x, world, resources,
          continuing, screen, ran, pressed>>

loadVars == <<map_str, missing, rows, cols, y, x>>

----------------------------------------------------------------------------
(* Bounds of the model and constants of the program *)

MaxLen == 3        \* longest generated map text, in characters
MaxQueue == 2      \* most keys pressed between two updates

U8Mod == 256       \* `as u8` keeps a usize modulo 2^8
TILE_WIDTH == 48
TILE_HEIGHT == 48

NL == "\n"
SP == " "
TAB == "\t"

Whitelist == {<<"P">>, <<"B">>, <<"W">>, <<"S">>, <<".">>, <<"N">>}
Alphabet == {"P", "B", "W", "S", ".", "N", "X", SP, NL, TAB}
Kinds == {"Floor", "Player", "Box", "Wall", "BoxSpot"}
KeyCodes == {"Up", "Down", "Left", "Right", "Escape", "Space"}

----------------------------------------------------------------------------
(* str::split and str::trim, as load_map uses them *)

SepPositions(s, sep) == {i \in 1..Len(s) : s[i] = sep}

\* The separator nearest the middle of s from the left, else the first one
MiddleSep(s, sep) ==
    LET at == SepPositions(s, sep)
        left == {i \in at : 2 * i <= Len(s) + 1}
    IN  IF left # {}
        THEN CHOOSE i \in left : \A j \in left : j <= i
        ELSE CHOOSE i \in at : \A j \in at : i <= j

\* s.split(sep): the pieces between separators, in order; always at least
\* one piece, and an empty piece wherever two separators are adjacent or
\* s is empty.  The pieces left and right of any one separator are the
\* pieces of the two parts, so s is halved rather than read left to right.
RECURSIVE Split(_, _)
Split(s, sep) ==
    IF SepPositions(s, sep) = {}
    THEN <<s>>
    ELSE LET i == MiddleSep(s, sep)
         IN  Split(SubSeq(s, 1, i - 1), sep) \o Split(SubSeq(s, i + 1, Len(s)), sep)

IsWhitespace(c) == c \in {SP, NL, TAB}

\* s.trim(): s without its leading and trailing whitespace
Trim(s) ==
    LET keep == {i \in 1..Len(s) : ~IsWhitespace(s[i])}
    IN  IF keep = {}
        THEN <<>>
        ELSE LET lo == CHOOSE i \in keep : \A j \in keep : i <= j
                 hi == CHOOSE i \in keep : \A j \in keep : j <= i
             IN  SubSeq(s, lo, hi)

\* map_str.split('\n').map(|x| x.trim()).collect()
SplitRows(s) ==
    LET raw == Split(s, NL)
    IN  [i \in 1..Len(raw) |-> Trim(raw[i])]

\* row.split(' ').collect()
SplitCols(row) == Split(row, SP)

----------------------------------------------------------------------------
(* Entities *)

\* Depth given at creation: the floor (0) below box, player and wall (1).
\* The depth of a box spot is not stated; it is taken as the floor's.
ZOf(kind) ==
    CASE kind = "Floor"   -> 0
      [] kind = "BoxSpot" -> 0
      [] kind = "Box"     -> 1
      [] kind = "Player"  -> 1
      [] kind = "Wall"    -> 1

\* entities::create_floor, create_player, create_box, create_wall and
\* create_box_spot: one entity of the kind at the position, its z set.
CreateEntity(kind, position) ==
    [kind |-> kind, x |-> position.x, y |-> position.y, z |-> ZOf(kind)]

\* The image of a kind loads unless it is the missing asset.
CreateFails(kind) == kind = missing

\* The Position load_map builds for the cell at loop indices (cy, cx)
CellPosition(cy, cx) == [x |-> cx % U8Mod, y |-> cy % U8Mod, z |-> 0]

\* A variant of the match that lays a floor under a wall too
TemplatesFloorUnderWall(col) ==
    CASE col = <<"P">> -> <<"Floor", "Player">>
      [] col = <<"B">> -> <<"Floor", "Box">>
      [] col = <<"W">> -> <<"Floor", "Wall">>
      [] col = <<"S">> -> <<"Floor", "BoxSpot">>
      [] col = <<".">> -> <<"Floor">>
      [] col = <<"N">> -> <<>>

\* The arms of load_map's match: the kinds created for a symbol, in order
Templates(col) ==
    CASE col = <<"P">> -> <<"Floor", "Player">>
      [] col = <<"B">> -> <<"Floor", "Box">>
      [] col = <<"W">> -> <<"Wall">>
      [] col = <<"S">> -> <<"Floor", "BoxSpot">>
      [] col = <<".">> -> <<"Floor">>
      [] col = <<"N">> -> <<>>

\* How many of the creations of a cell succeed before one fails with `?`
CreatedBeforeFailure(kinds) ==
    IF \E i \in 1..Len(kinds) : CreateFails(kinds[i])
    THEN (CHOOSE i \in 1..Len(kinds) :
            CreateFails(kinds[i]) /\ \A j \in 1..(i - 1) : ~CreateFails(kinds[j])) - 1
    ELSE Len(kinds)

----------------------------------------------------------------------------
(* Game::new and load_map *)

\* load_map, line 104: the rows are split off and trimmed before the loops
LoadMapBegin ==
    /\ pc = "new"
    /\ rows' = SplitRows(map_str)
    /\ cols' = SplitCols(SplitRows(map_str)[1])
    /\ y' = 0
    /\ x' = 0
    /\ pc' = "load"
    /\ UNCHANGED <<map_str, missing, world, resources, continuing, screen, ran, pressed>>

\* The loop indices after the cell (y, x): the next cell of the row, or
\* the first cell of the next row, whose cols are split on entry.
Advance ==
    IF x + 1 < Len(cols)
    THEN /\ x' = x + 1
         /\ UNCHANGED <<y, cols>>
    ELSE /\ x' = 0
         /\ y' = y + 1
         /\ cols' = IF y + 1 < Len(rows) THEN SplitCols(rows[y + 2]) ELSE <<>>

\* One pass of the inner loop on a whitelist symbol whose creations succeed
LoadCell ==
    /\ pc = "load"
    /\ y < Len(rows)
    /\ cols[x + 1] \in Whitelist
    /\ LET kinds == Templates(cols[x + 1])
           position == CellPosition(y, x)
       IN  /\ CreatedBeforeFailure(kinds) = Len(kinds)
           /\ world' = world \o [i \in 1..Len(kinds) |-> CreateEntity(kinds[i], position)]
    /\ Advance
    /\ UNCHANGED <<map_str, missing, pc, rows, resources, continuing, screen, ran, pressed>>

\* One pass of the inner loop in which a creation returns Err: `?` returns
\* it from load_map and from Game::new.
LoadCellErr ==
    /\ pc = "load"
    /\ y < Len(rows)
    /\ cols[x + 1] \in Whitelist
    /\ LET kinds == Templates(cols[x + 1])
           position == CellPosition(y, x)
           n == CreatedBeforeFailure(kinds)
       IN  /\ n < Len(kinds)
           /\ world' = world \o [i \in 1..n |-> CreateEntity(kinds[i], position)]
    /\ pc' = "failed"
    /\ UNCHANGED <<loadVars, resources, continuing, screen, ran, pressed>>

\* A variant of the last arm that reads an unknown symbol as an empty cell
LoadCellSkipsUnknown ==
    /\ pc = "load"
    /\ y < Len(rows)
    /\ cols[x + 1] \notin Whitelist
    /\ Advance
    /\ UNCHANGED <<map_str, missing, pc, rows, world, resources, continuing,
                   screen, ran, pressed>>

\* The last arm of the match: panic!("Invalid map item {}", c)
LoadCellPanic ==
    /\ pc = "load"
    /\ y < Len(rows)
    /\ cols[x + 1] \notin Whitelist
    /\ pc' = "panicked"
    /\ UNCHANGED <<loadVars, world, resources, continuing, screen, ran, pressed>>

\* load_map returns Ok(()); Game::new inserts the key queue, builds the
\* schedule and returns the Game.
GameNew ==
    /\ pc = "load"
    /\ y = Len(rows)
    /\ resources' = [n \in {"KeyBoardEventQueue"} |-> [keys_pressed |-> <<>>]]
    /\ pc' = "running"
    /\ UNCHANGED <<loadVars, world, continuing, screen, ran, pressed>>

----------------------------------------------------------------------------
(* The world query and the sort of Game::draw *)

Ids(w) == [i \in 1..Len(w) |-> i]

\* The component layouts (one per kind: Position, Renderable and the tags
\* of the kind) in the order in which the world first met them.  legion
\* stores the entities of one layout together, in insertion order.
RECURSIVE Archetypes(_)
Archetypes(w) ==
    IF w = <<>>
    THEN <<>>
    ELSE LET a == Archetypes(SubSeq(w, 1, Len(w) - 1))
             k == w[Len(w)].kind
         IN  IF \E i \in 1..Len(a) : a[i] = k THEN a ELSE Append(a, k)

RECURSIVE Flatten(_)
Flatten(ss) == IF ss = <<>> THEN <<>> ELSE Head(ss) \o Flatten(Tail(ss))

\* <(&Position, &Renderable)>::query().iter(&world): every entity, layout
\* by layout, and in insertion order within a layout.
QueryIter(w) ==
    LET a == Archetypes(w)
    IN  Flatten([i \in 1..Len(a) |->
                    SelectSeq(Ids(w), LAMBDA e : w[e].kind = a[i])])

\* A variant of the sort that is not stable: equal keys end up reversed
RECURSIVE SortByKeyUnstable(_, _)
SortByKeyUnstable(ids, w) ==
    IF ids = <<>>
    THEN <<>>
    ELSE LET n == Len(ids)
             e == ids[n]
             sorted == SortByKeyUnstable(SubSeq(ids, 1, n - 1), w)
             c == Cardinality({i \in 1..Len(sorted) : w[sorted[i]].z < w[e].z})
         IN  SubSeq(sorted, 1, c) \o <<e>> \o SubSeq(sorted, c + 1, Len(sorted))

\* Vec::sort_by_key(|&k| k.0.z): a stable sort, ascending by z
RECURSIVE SortByKey(_, _)
SortByKey(ids, w) ==
    IF ids = <<>>
    THEN <<>>
    ELSE LET n == Len(ids)
             e == ids[n]
             sorted == SortByKey(SubSeq(ids, 1, n - 1), w)
             c == Cardinality({i \in 1..Len(sorted) : w[sorted[i]].z <= w[e].z})
         IN  SubSeq(sorted, 1, c) \o <<e>> \o SubSeq(sorted, c + 1, Len(sorted))

\* One graphics::draw call: the entity's Renderable at its screen_dest
DrawCall(w, e) ==
    [renderable |-> e, x |-> w[e].x * TILE_WIDTH, y |-> w[e].y * TILE_HEIGHT]

\* The draw calls of one Game::draw, in order
Frame(w) ==
    LET order == SortByKey(QueryIter(w), w)
    IN  [i \in 1..Len(order) |-> DrawCall(w, order[i])]

----------------------------------------------------------------------------
(* systems::player_control_system, the one system of the schedule *)

Direction(key) ==
    CASE key = "Up"    -> [dx |-> 0, dy |-> -1]
      [] key = "Down"  -> [dx |-> 0, dy |-> 1]
      [] key = "Left"  -> [dx |-> -1, dy |-> 0]
      [] key = "Right" -> [dx |-> 1, dy |-> 0]
      [] OTHER         -> [dx |-> 0, dy |-> 0]

MapHeight == Len(rows)
MapWidth ==
    LET w == {Len(SplitCols(rows[i])) : i \in 1..Len(rows)}
    IN  CHOOSE m \in w : \A n \in w : n <= m

InBounds(px, py) == px >= 0 /\ px < MapWidth /\ py >= 0 /\ py < MapHeight

At(w, kind, px, py) ==
    {e \in 1..Len(w) : w[e].kind = kind /\ w[e].x = px /\ w[e].y = py}

Blocked(w, px, py) ==
    ~InBounds(px, py) \/ At(w, "Wall", px, py) # {}

\* The move of player p by d: rejected at a wall, and at a box that has
\* no clear cell beyond it; else the player moves, and the box with it.
TryMove(w, p, d) ==
    LET tx == w[p].x + d.dx
        ty == w[p].y + d.dy
        boxes == At(w, "Box", tx, ty)
        moved(e) == [w[e] EXCEPT !.x = @ + d.dx, !.y = @ + d.dy]
    IN  IF Blocked(w, tx, ty)
        THEN w
        ELSE IF boxes = {}
        THEN [w EXCEPT ![p] = moved(p)]
        ELSE IF Blocked(w, tx + d.dx, ty + d.dy) \/ At(w, "Box", tx + d.dx, ty + d.dy) # {}
        THEN w
        ELSE [e \in 1..Len(w) |-> IF e = p \/ e \in boxes THEN moved(e) ELSE w[e]]

RECURSIVE MovePlayers(_, _, _)
MovePlayers(w, players, d) ==
    IF players = <<>>
    THEN w
    ELSE MovePlayers(TryMove(w, Head(players), d), Tail(players), d)

\* One key of the queue: one move of the player if the key is a direction
HandleKey(w, key) ==
    IF key \in {"Up", "Down", "Left", "Right"}
    THEN MovePlayers(w, SelectSeq(Ids(w), LAMBDA e : w[e].kind = "Player"), Direction(key))
    ELSE w

RECURSIVE HandleKeys(_, _)
HandleKeys(w, keys) ==
    IF keys = <<>> THEN w ELSE HandleKeys(HandleKey(w, Head(keys)), Tail(keys))

\* The system drains the key queue in FIFO order and leaves it empty.
player_control_system(st) ==
    [st EXCEPT
        !.world = HandleKeys(@, st.resources["KeyBoardEventQueue"].keys_pressed),
        !.resources = [@ EXCEPT !["KeyBoardEventQueue"].keys_pressed = <<>>],
        !.ran = Append(@, "player_control_system")]

----------------------------------------------------------------------------
(* The EventHandler callbacks *)

\* Schedule::builder().add_system(player_control_system()).build()
update_schedule == <<"player_control_system">>

RunSystem(name, st) ==
    CASE name = "player_control_system" -> player_control_system(st)

\* Schedule::execute: the systems of the schedule one after the other
RECURSIVE Execute(_, _)
Execute(schedule, st) ==
    IF schedule = <<>>
    THEN st
    ELSE Execute(Tail(schedule), RunSystem(Head(schedule), st))

update ==
    /\ pc = "running"
    /\ LET st == Execute(update_schedule,
                         [world |-> world, resources |-> resources, ran |-> <<>>])
       IN  /\ world' = st.world
           /\ resources' = st.resources
           /\ ran' = st.ran
    /\ UNCHANGED <<loadVars, pc, continuing, screen>>

\* A variant of draw that sorts the entities of the world themselves
draw_sorting_world ==
    /\ pc = "running"
    /\ screen' = <<Frame(world)>>
    /\ world' = LET order == SortByKey(Ids(world), world)
                IN  [i \in 1..Len(order) |-> world[order[i]]]
    /\ UNCHANGED <<loadVars, pc, resources, continuing, ran>>

draw ==
    /\ pc = "running"
    /\ screen' = <<Frame(world)>>
    /\ UNCHANGED <<loadVars, pc, world, resources, continuing, ran>>

\* A variant of key_down_event that quits on every key
key_down_event_quits_on_any_key(keycode) ==
    /\ pc = "running"
    /\ continuing' = FALSE
    /\ resources' =
         IF "KeyBoardEventQueue" \in DOMAIN resources
         THEN [resources EXCEPT
                 !["KeyBoardEventQueue"].keys_pressed = Append(@, keycode)]
         ELSE resources
    /\ UNCHANGED <<loadVars, pc, world, screen, ran>>

\* A variant of key_down_event that returns once it has asked to quit
key_down_event_returns_on_escape(keycode) ==
    /\ pc = "running"
    /\ continuing' = IF keycode = "Escape" THEN FALSE ELSE continuing
    /\ resources' =
         IF "KeyBoardEventQueue" \in DOMAIN resources /\ keycode # "Escape"
         THEN [resources EXCEPT
                 !["KeyBoardEventQueue"].keys_pressed = Append(@, keycode)]
         ELSE resources
    /\ UNCHANGED <<loadVars, pc, world, screen, ran>>

key_down_event(keycode) ==
    /\ pc = "running"
    /\ continuing' = IF keycode = "Escape" THEN FALSE ELSE continuing
    /\ resources' =
         IF "KeyBoardEventQueue" \in DOMAIN resources
         THEN [resources EXCEPT
                 !["KeyBoardEventQueue"].keys_pressed = Append(@, keycode)]
         ELSE resources
    /\ UNCHANGED <<loadVars, pc, world, screen, ran>>

KeysPressed == resources["KeyBoardEventQueue"].keys_pressed

\* The engine's calls, with the history of the keys pressed.  The engine
\* may call in any order once the Game exists; it finishes the frame in
\* which quit was asked for, so calls are not cut off by the run flag.
OnUpdate == update /\ pressed' = <<>>

OnDraw == draw /\ UNCHANGED pressed

OnKeyDown ==
    \E keycode \in KeyCodes :
        /\ Len(pressed) < MaxQueue
        /\ key_down_event(keycode)
        /\ pressed' = Append(pressed, keycode)

----------------------------------------------------------------------------
(* Map texts *)

Strings(n) == UNION {[1..k -> Alphabet] : k \in 0..n}

\* A one-box puzzle in one row
MapPush == <<"P", SP, "B", SP, "S">>

\* The scenario map: a player and one free floor cell inside walls
MapRoom ==
    <<"W", SP, "W", SP, "W", NL,
      "W", SP, "P", SP, ".", NL,
      "W", SP, "W", SP, "W">>

\* All six symbols, with blanks around the row that trim removes
MapAll == <<SP, "N", SP, "W", SP, "P", SP, "B", SP, ".", SP, "S", SP, "W", TAB>>

\* Two columns and three rows
MapDown ==
    <<"P", SP, ".", NL,
      "B", SP, "W", NL,
      "S", SP, "N">>

\* A blank row, two adjacent spaces, an unknown symbol, a two-letter cell
MapBlankRow == <<"P", SP, ".", NL, NL, "B", SP, "S">>
MapTwoSpaces == <<"W", SP, "P", SP, SP, "B">>
MapUnknown == <<"P", SP, "B", NL, "X", SP, "S">>
MapTwoLetters == <<"W", SP, "P", "B">>

PlayMaps ==
    {MapPush, MapRoom, MapAll, MapDown,
     MapBlankRow, MapTwoSpaces, MapUnknown, MapTwoLetters}

\* One row of U8Mod + 1 cells: a at column 0, b at column U8Mod, N between
WideRow(a, b) ==
    [i \in 1..(2 * U8Mod + 1) |->
        IF i = 1 THEN a
        ELSE IF i = 2 * U8Mod + 1 THEN b
        ELSE IF i % 2 = 0 THEN SP ELSE "N"]

\* U8Mod + 1 rows of one cell: a in row 0, b in row U8Mod, N between
TallColumn(a, b) ==
    [i \in 1..(2 * U8Mod + 1) |->
        IF i = 1 THEN a
        ELSE IF i = 2 * U8Mod + 1 THEN b
        ELSE IF i % 2 = 0 THEN NL ELSE "N"]

WideMaps ==
    {WideRow(a, b) : a, b \in {".", "B"}} \cup {TallColumn(a, b) : a, b \in {".", "B"}}

LoadMaps == Strings(MaxLen) \cup PlayMaps \cup WideMaps

----------------------------------------------------------------------------
(* Specifications *)

InitWith(maps) ==
    /\ map_str \in maps
    /\ missing \in {"none"} \cup Kinds
    /\ pc = "new"
    /\ rows = <<>>
    /\ cols = <<>>
    /\ y = 0
    /\ x = 0
    /\ world = <<>>
    /\ resources = <<>>
    /\ continuing = TRUE
    /\ screen = <<>>
    /\ ran = <<>>
    /\ pressed = <<>>

\* The game: Game::new on a map, then the engine's calls in any order
Init == InitWith(PlayMaps)

Next ==
    \/ LoadMapBegin
    \/ LoadCell
    \/ LoadCellErr
    \/ LoadCellPanic
    \/ GameNew
    \/ OnUpdate
    \/ OnDraw
    \/ OnKeyDown

Spec == Init /\ [][Next]_vars

\* Game::new alone, on every short map text and on maps past the u8 range
InitLoad == InitWith(LoadMaps)

NextLoad ==
    \/ LoadMapBegin
    \/ LoadCell
    \/ LoadCellErr
    \/ LoadCellPanic
    \/ GameNew

SpecLoad == InitLoad /\ [][NextLoad]_vars

----------------------------------------------------------------------------
(* What the claims speak of *)

\* The cells of the map text, as <<row index, column index>> from 0
CellsOf(text) ==
    LET rs == SplitRows(text)
    IN  UNION {LET cs == SplitCols(rs[r])
               IN  {<<r - 1, c - 1>> : c \in 1..Len(cs)} : r \in 1..Len(rs)}

SymbolAt(text, cell) == SplitCols(SplitRows(text)[cell[1] + 1])[cell[2] + 1]

\* The number of cells of the loaded map whose symbol is in none of syms
CellsNotIn(syms) ==
    Cardinality(UNION {LET cs == SplitCols(rows[r])
                       IN  {<<r, c>> : c \in {c \in 1..Len(cs) : cs[c] \notin syms}}
                       : r \in 1..Len(rows)})

CountKind(w, kind) == Cardinality({e \in 1..Len(w) : w[e].kind = kind})

\* The entities a step adds to the world, in creation order
Created == SubSeq(world', Len(world) + 1, Len(world'))

RowMajorBefore(a, b) == a[1] < b[1] \/ (a[1] = b[1] /\ a[2] < b[2])

InvalidCells == {cell \in CellsOf(map_str) : SymbolAt(map_str, cell) \notin Whitelist}

FirstInvalidCell ==
    CHOOSE cell \in InvalidCells :
        \A other \in InvalidCells : other = cell \/ RowMajorBefore(cell, other)

----------------------------------------------------------------------------
(* C1 and C9: the entities of a cell and their position *)

\* The symbol table as the claim states it
C1_Table(col, kind) ==
    CASE col = <<"P">> -> IF kind \in {"Floor", "Player"} THEN 1 ELSE 0
      [] col = <<"B">> -> IF kind \in {"Floor", "Box"} THEN 1 ELSE 0
      [] col = <<"S">> -> IF kind \in {"Floor", "BoxSpot"} THEN 1 ELSE 0
      [] col = <<"W">> -> IF kind = "Wall" THEN 1 ELSE 0
      [] col = <<".">> -> IF kind = "Floor" THEN 1 ELSE 0
      [] col = <<"N">> -> 0

\* The kinds of the table alone, whatever the position: holds of load_map
C1_KindsPerSymbol ==
    [][LoadCell =>
        /\ SubSeq(world', 1, Len(world)) = world
        /\ \A kind \in Kinds :
              CountKind(Created, kind) = C1_Table(cols[x + 1], kind)]_vars

\* C1: each cell of a whitelist map, once load_map has read it, has added
\* to the world exactly the entities of the symbol table (P: one Floor and
\* one Player; B: one Floor and one Box; S: one Floor and one BoxSpot; W:
\* one Wall; '.': one Floor; N: none), each at the position of the cell,
\* x the column index and y the row index.
C1_EntitiesPerCell ==
    [][LoadCell =>
        /\ SubSeq(world', 1, Len(world)) = world
        /\ \A kind \in Kinds :
              CountKind(Created, kind) = C1_Table(cols[x + 1], kind)
        /\ \A i \in 1..Len(Created) :
              Created[i].x = x /\ Created[i].y = y]_vars

\* C9: every entity created for the cell at row r and column c has y = r
\* and x = c, and no entity of an earlier cell has the same (x, y).
C9_PositionIsCellIndex ==
    [][LoadCell =>
        \A i \in 1..Len(Created) :
            /\ Created[i].y = y
            /\ Created[i].x = x
            /\ \A e \in 1..Len(world) :
                  ~(world[e].x = Created[i].x /\ world[e].y = Created[i].y)]_vars

----------------------------------------------------------------------------
(* C2: the number of floors *)

\* C2 as claimed: once load_map has completed, the number of Floor
\* entities is the number of cells whose symbol is not N.
C2_FloorsAreNonNCells ==
    pc = "running" => CountKind(world, "Floor") = CellsNotIn({<<"N">>})

\* C2 as amended: once load_map has completed, the number of Floor
\* entities is the number of cells whose symbol is neither N nor W.
C2_FloorsAreNonNNonWCells ==
    pc = "running" => CountKind(world, "Floor") = CellsNotIn({<<"N">>, <<"W">>})

C2_Witness ==
    /\ pc = "running"
    /\ CountKind(world, "Wall") > 0
    /\ CountKind(world, "Floor") > 1
    /\ CellsNotIn({<<"N">>}) < CellsNotIn({})

----------------------------------------------------------------------------
(* C3: a map with a cell outside the whitelist *)

\* C3: on a map text with a cell that is no whitelist symbol, Game::new
\* never yields a Game, no tick and no frame ever runs, load_map never
\* reads past the first such cell in row-major order and, when it gets
\* there, panics there.
C3_InvalidMapNeverRuns ==
    InvalidCells # {} =>
        /\ pc # "running"
        /\ ran = <<>>
        /\ screen = <<>>
        /\ resources = <<>>
        /\ pc \in {"load", "failed", "panicked"} =>
              ~RowMajorBefore(FirstInvalidCell, <<y, x>>)
        /\ pc = "panicked" => <<y, x>> = FirstInvalidCell

C3_Witness ==
    /\ pc = "panicked"
    /\ world # <<>>
    /\ cols[x + 1] = <<>>
    /\ y > 0

----------------------------------------------------------------------------
(* C4: the order of the draw calls *)

\* The frame a draw step presents
Presented == screen'[1]

ZOfCall(call) == world[call.renderable].z
KindOfCall(call) == world[call.renderable].kind

\* The entity that was created first among those of a kind
FirstOfKind(kind) ==
    CHOOSE e \in 1..Len(world) :
        world[e].kind = kind /\ \A f \in 1..(e - 1) : world[f].kind # kind

\* Every entity of the world is drawn exactly once, where it stands
DrawsEveryEntityOnce(frame) ==
    /\ Len(frame) = Len(world)
    /\ \A e \in 1..Len(world) : \E i \in 1..Len(frame) : frame[i] = DrawCall(world, e)

\* The frame shows the world as it is now
FrameIsCurrent == screen # <<>> /\ DrawsEveryEntityOnce(screen[1])

----------------------------------------------------------------------------
(* C5 and C6: the systems of a tick *)

GamePlayStatus ==
    IF "GamePlay" \in DOMAIN resources THEN resources["GamePlay"] ELSE "none"

AllBoxesOnSpots ==
    /\ CountKind(world, "Box") > 0
    /\ \A b \in 1..Len(world) :
          world[b].kind = "Box" => At(world, "BoxSpot", world[b].x, world[b].y) # {}

\* C5: the game holds a GamePlay status, InProgress until the first tick,
\* and Solved after a tick that leaves every box on a box spot.
C5_SolvedWhenBoxesOnSpots ==
    pc = "running" =>
        /\ ran = <<>> => GamePlayStatus = "InProgress"
        /\ GamePlayStatus \in {"InProgress", "Solved"}
        /\ (ran # <<>> /\ AllBoxesOnSpots) => GamePlayStatus = "Solved"

\* The part of C5 about the tick that puts the one box on the one spot
C5_PushOntoSpotSolves ==
    (pc = "running" /\ ran # <<>> /\ AllBoxesOnSpots) => GamePlayStatus = "Solved"

SystemRole(name) ==
    CASE name = "player_control_system" -> "input handling"
      [] OTHER -> name

\* C6: every tick runs input handling, then objective evaluation, then
\* gameplay-event consumption, each once.
C6_ThreeSystemsInOrder ==
    (pc = "running" /\ ran # <<>>) =>
        [i \in 1..Len(ran) |-> SystemRole(ran[i])]
            = <<"input handling", "objective evaluation", "gameplay-event consumption">>

----------------------------------------------------------------------------
(* C7, C8 and C10: what the callbacks change *)

\* C7: a key_down_event for Escape clears the engine's run flag, one for
\* any other key leaves the flag as it was, and so do update and draw.
C7_OnlyEscapeQuits ==
    [][/\ \A keycode \in KeyCodes :
            key_down_event(keycode) =>
                continuing' = IF keycode = "Escape" THEN FALSE ELSE continuing
       /\ (update \/ draw) => continuing' = continuing]_vars

C7_Witness ==
    /\ pc = "running"
    /\ ~continuing
    /\ Len(KeysPressed) = 2
    /\ KeysPressed[1] # "Escape"
    /\ KeysPressed[2] = "Escape"
    /\ ran # <<>>
    /\ screen # <<>>

\* C8: key_down_event changes no entity and adds no resource, and appends
\* its keycode (Escape too) at the tail of the key queue; so the queue
\* always holds the keys pressed since the last update, in press order.
C8_QueueHoldsKeysSinceUpdate ==
    /\ [](pc = "running" => KeysPressed = pressed)
    /\ [][\A keycode \in KeyCodes :
            key_down_event(keycode) =>
                /\ world' = world
                /\ DOMAIN resources' = DOMAIN resources
                /\ KeysPressed' = Append(KeysPressed, keycode)]_vars

C8_Witness ==
    /\ pc = "running"
    /\ ran # <<>>
    /\ screen # <<>>
    /\ KeysPressed = <<"Escape", "Left">>

\* C10: a draw leaves the world (every entity and every component of it)
\* and the resources (the key queue) exactly as they were, so the update
\* after it starts from what the update would have started from before it.
C10_DrawReadsOnly ==
    [][draw => (world' = world /\ resources' = resources)]_vars

\* A frame drawn between a key press and the update that consumes it
C10_Witness ==
    /\ FrameIsCurrent
    /\ KeysPressed = <<"Right">>
    /\ ran # <<>>
    /\ \E p \in 1..Len(world) : world[p].kind = "Player" /\ world[p].x > 0
    /\ \E e \in 2..Len(world) : world[e].z < world[e - 1].z

====
